---- MODULE Spec2Model ----
(***************************************************************************)
(* State machine of IntifaceState (the buttplug.io client of the           *)
(* repository): the socket owned by connect(), the request correlator      *)
(* (messageId / pendingMessages), the device registry and the presence     *)
(* controller (setState and the work-signal bridge).                       *)
(*                                                                         *)
(* JavaScript runs every handler to its next suspension point without      *)
(* interleaving, so one action is one handler run up to the point where    *)
(* it awaits a socket event, a reply or a timer.  The handlers are written *)
(* as operators on a record S of all the fields of the object; an action   *)
(* commits the record its handler returns.                                 *)
(***************************************************************************)
EXTENDS Integers, Sequences, FiniteSets, TLC

\* ---- bounds of the model
MaxSockets == 2          \* sockets ever constructed
MaxId      == 5          \* no new caller starts once messageId exceeds this
NTasks     == 2          \* callers in flight at the same time
MaxClock   == 2          \* readings of the wall clock
MaxCount   == 2          \* largest working count of a notification
MaxDevice  == 0          \* largest device index a server announces
MaxMotors  == 2          \* most motors of one kind on a device

\* ---- program constants
DEFAULT_STRENGTH == 15   \* 0.15, in hundredths
PollIterations   == 10   \* ensureConnected: for (let i = 0; i < 10; i++)

Sockets   == 1..MaxSockets
Tasks     == 1..NTasks
Solo      == {1}                   \* the slot of a caller that runs alone
DevIdx    == 0..MaxDevice          \* indices a server announces
DevArgs   == 0..(MaxDevice + 1)    \* device arguments of callers: one is never announced
Counts    == 0..MaxCount
Strengths == {DEFAULT_STRENGTH, 50}

NoIndex == 0 - 1         \* a frame without a DeviceIndex field
NoMotor == 0 - 1         \* the motor argument left undefined

\* a parsed device: the motors of each capability, 0 when the capability is unset
Descr == [vibrate : 0..1, rotate : {0}, linear : {0}]
\* every content of the registry: a map from some device indices to descriptors
Registries == UNION {[D -> Descr] : D \in SUBSET DevIdx}
\* devices with other capabilities: several vibrate motors and a linear axis, or
\* one rotating motor
ToyDescr == {[vibrate |-> MaxMotors, rotate |-> 0, linear |-> 1],
             [vibrate |-> 0, rotate |-> 1, linear |-> 0]}
ToyRegistries == UNION {[D -> ToyDescr] : D \in SUBSET DevIdx}
\* arguments of the actuation layer: values below, inside and above [0, 1], in
\* hundredths, and no motor, a motor of the device, or one past its last
Values == {0 - 20, 50, 150}
MotorArgs == {NoMotor} \cup (1..MaxMotors)
NoDevices == [i \in {} |-> [vibrate |-> 0, rotate |-> 0, linear |-> 0]]

VARIABLES
    wsUrl,             \* this.wsUrl is a non-empty string
    ws,                \* this.ws: 0 for null, else the socket
    readyState,        \* readyState of every socket ever constructed
    connectionPromise, \* this.connectionPromise: 0 for null, else the attempt
    attempt,           \* outcome of the promise made by the connect() that built socket s
    timeout,           \* the setTimeout of that connect(): "none", "armed", "cleared", "fired"
    onopen,            \* position of the ws.onopen handler of socket s
    messageId,         \* this.messageId
    pendingMessages,   \* keys of this.pendingMessages
    devices,           \* this.devices
    sent,              \* output of the latest step: the frames it wrote to a socket
    completed,         \* output of the latest step: the requests it resolved or rejected
    called,            \* output of the latest step: the vibrate()/stop() calls it made
    invoked,           \* input of the latest step: the operation a caller invoked, if any
    received,          \* input of the latest step: the frame handleMessage() was given
    active, device, strength, since,   \* the presence fields
    lastWorkingCount,  \* this.lastWorkingCount
    now,               \* the wall clock read by new Date()
    task,              \* the callers in flight and where each one is suspended
    prevDelivered,     \* history: count of the latest notification delivered
    overlapped,        \* history: a notification was delivered while another was running
    lastEdge,          \* history: the latest call a notification made, "none" before any
    vibrated           \* history: the device setState() vibrated when active became true

vars == <<ws, readyState, connectionPromise, attempt, timeout, onopen, messageId,
          pendingMessages, devices, sent, active, device, strength, since,
          lastWorkingCount, now, task, completed, called, invoked, prevDelivered,
          overlapped, wsUrl, received, lastEdge, vibrated>>

\* the fields as one record, for the handlers to transform; a step starts with
\* nothing written and nothing completed; throws tells whether new WebSocket() will
\* throw in this step, threw whether handleMessage() has thrown into its catch block
Cur == [wsUrl |-> wsUrl, throws |-> FALSE, threw |-> FALSE, received |-> <<>>,
        ws |-> ws, readyState |-> readyState, connectionPromise |-> connectionPromise,
        attempt |-> attempt, timeout |-> timeout, onopen |-> onopen,
        messageId |-> messageId, pendingMessages |-> pendingMessages,
        devices |-> devices, sent |-> <<>>, active |-> active, device |-> device,
        strength |-> strength, since |-> since, lastWorkingCount |-> lastWorkingCount,
        now |-> now, task |-> task, completed |-> <<>>, called |-> <<>>,
        invoked |-> <<>>,
        prevDelivered |-> prevDelivered, overlapped |-> overlapped,
        lastEdge |-> lastEdge, vibrated |-> vibrated]

Commit(S) ==
    /\ wsUrl' = S.wsUrl
    /\ received' = S.received
    /\ ws' = S.ws
    /\ readyState' = S.readyState
    /\ connectionPromise' = S.connectionPromise
    /\ attempt' = S.attempt
    /\ timeout' = S.timeout
    /\ onopen' = S.onopen
    /\ messageId' = S.messageId
    /\ pendingMessages' = S.pendingMessages
    /\ devices' = S.devices
    /\ sent' = S.sent
    /\ active' = S.active
    /\ device' = S.device
    /\ strength' = S.strength
    /\ since' = S.since
    /\ lastWorkingCount' = S.lastWorkingCount
    /\ now' = S.now
    /\ task' = S.task
    /\ completed' = S.completed
    /\ called' = S.called
    /\ invoked' = S.invoked
    /\ prevDelivered' = S.prevDelivered
    /\ overlapped' = S.overlapped
    /\ lastEdge' = S.lastEdge
    /\ vibrated' = S.vibrated

NoCall == [op |-> "none", dev |-> 0, str |-> 0]
IdleTask == [kind |-> "idle", pc |-> "idle", att |-> 0, seen |-> 0, req |-> 0,
             polls |-> 0, call |-> NoCall, motor |-> NoMotor, count |-> 0,
             result |-> "none", caught |-> "none"]

\* the object after construction, but for this.wsUrl
Fields ==
    /\ ws = 0
    /\ readyState = [s \in Sockets |-> "NONE"]
    /\ connectionPromise = 0
    /\ attempt = [s \in Sockets |-> "none"]
    /\ timeout = [s \in Sockets |-> "none"]
    /\ onopen = [s \in Sockets |-> [step |-> 0, req |-> 0]]
    /\ messageId = 1
    /\ pendingMessages = {}
    /\ devices = NoDevices
    /\ sent = <<>>
    /\ active = FALSE
    /\ device = 0
    /\ strength = DEFAULT_STRENGTH
    /\ since = 0
    /\ lastWorkingCount = 0
    /\ now = 1
    /\ task = [t \in Tasks |-> IdleTask]
    /\ completed = <<>>
    /\ called = <<>>
    /\ invoked = <<>>
    /\ received = <<>>
    /\ prevDelivered = 0
    /\ overlapped = FALSE
    /\ lastEdge = "none"
    /\ vibrated = NoIndex

\* new IntifaceState(): the address defaults to the environment's or to localhost
Init == wsUrl = TRUE /\ Fields

\* new IntifaceState(wsUrl) with any address, the empty string included
InitAnyUrl == wsUrl \in BOOLEAN /\ Fields

\* ---------------------------------------------------------------------------
\* Request correlator

\* a test that takes any socket for an open one
hasSocket(S) == S.ws # 0

\* isConnected(), and the test at the head of send()
isConnected(S) == S.ws # 0 /\ S.readyState[S.ws] = "OPEN"

\* send(): the state after a frame was written; only used when isConnected(S).  A
\* frame is its socket, its type, its Id, its DeviceIndex (NoIndex without one) and
\* its Scalars / Rotations / Vectors array (empty without one)
send(S, msgType, dev, args) ==
    [S EXCEPT !.messageId = @ + 1,
              !.pendingMessages = @ \cup {S.messageId},
              !.sent = Append(@, [sock |-> S.ws, type |-> msgType, Id |-> S.messageId,
                                  dev |-> dev, args |-> args])]

\* resolve / reject of the promise connect() made for socket a; a settled promise stays
Settle(S, a, outcome) ==
    IF S.attempt[a] = "pending" THEN [S EXCEPT !.attempt[a] = outcome] ELSE S

\* ---------------------------------------------------------------------------
\* Callers: what runs when an awaited promise of task t settles

\* callers without the try/catch: the error of vibrate()/stop() reaches the caller of
\* setState(), and a notification that failed does not record its count
ActuationDoneRethrows(S, t, outcome) ==
    LET k == S.task[t].kind
        fin == [IdleTask EXCEPT !.kind = k, !.pc = "done", !.result = outcome]
    IN  IF k = "notif" /\ outcome = "ok"
        THEN [S EXCEPT !.task[t] = fin, !.lastWorkingCount = S.task[t].count]
        ELSE [S EXCEPT !.task[t] = fin]

\* vibrate()/stop() called by task t returned (outcome "ok") or threw: the catch block
\* logs the error, a notification then records its count, and the caller returns
ActuationDone(S, t, outcome) ==
    LET k == S.task[t].kind
        fin == [IdleTask EXCEPT !.kind = k, !.pc = "done", !.result = "ok",
                                !.caught = IF outcome = "ok" THEN "none" ELSE outcome]
    IN  IF k = "notif"
        THEN [S EXCEPT !.task[t] = fin, !.lastWorkingCount = S.task[t].count]
        ELSE [S EXCEPT !.task[t] = fin]

\* an operation of the actuation layer called by task t ended with outcome; sending
\* tells whether it ended in its send().  setState() and the bridge catch the error;
\* getBattery() catches the errors of its send() only; a direct caller gets the error
Finish(S, t, outcome, sending) ==
    LET k == S.task[t].kind
        fin == [IdleTask EXCEPT !.kind = k, !.pc = "done"]
    IN  IF k \in {"notif", "setState"}
        THEN ActuationDone(S, t, outcome)
        ELSE IF k = "battery" /\ sending
        THEN [S EXCEPT !.task[t] = [fin EXCEPT !.result = IF outcome = "ok" THEN "level"
                                                         ELSE "null"]]
        ELSE [S EXCEPT !.task[t] = [fin EXCEPT !.result = outcome]]

\* the motors the registry records for operation op on device d
Motors(d, op) ==
    CASE op = "vibrate" -> d.vibrate
      [] op = "rotate" -> d.rotate
      [] op = "linear" -> d.linear
      [] OTHER -> 0

Unsupported(op) ==
    CASE op = "vibrate" -> "Device does not support vibration"
      [] op = "rotate" -> "Device does not support rotation"
      [] OTHER -> "Device does not support linear movement"

CommandType(op) ==
    CASE op = "vibrate" -> "ScalarCmd"
      [] op = "rotate" -> "RotateCmd"
      [] op = "linear" -> "LinearCmd"
      [] op = "stop" -> "StopDeviceCmd"
      [] OTHER -> "BatteryLevelCmd"

\* a clamp without its lower bound: Math.min(1, x)
ClampAbove(x) == IF x < 100 THEN x ELSE 100

\* Math.max(0, Math.min(1, x)), in hundredths
Clamp(x) ==
    LET m == IF x < 100 THEN x ELSE 100
    IN  IF m > 0 THEN m ELSE 0

\* the Scalars / Rotations / Vectors array built by the loop over the motors: the
\* entry of motor i carries the clamped value when motor is undefined or i, else 0
Scalars(motorCount, motor, x) ==
    [i \in 1..motorCount |->
        [Index |-> i - 1,
         Scalar |-> IF motor = NoMotor \/ motor = i - 1 THEN Clamp(x) ELSE 0]]

\* operations that look the device up and do not test its capability
AfterEnsureAnyCapability(S, t) ==
    LET c == S.task[t].call
        scaled == c.op \in {"vibrate", "rotate", "linear"}
    IN  IF c.dev \notin DOMAIN S.devices
        THEN Finish(S, t, "Device not found", FALSE)
        ELSE IF ~isConnected(S)
        THEN Finish(S, t, "Not connected", TRUE)
        ELSE LET args == IF scaled
                         THEN Scalars(Motors(S.devices[c.dev], c.op), S.task[t].motor,
                                      c.str)
                         ELSE <<>>
                 S1 == send(S, CommandType(c.op), c.dev, args)
             IN  [S1 EXCEPT !.task[t].pc = "awaitReply", !.task[t].req = S.messageId,
                            !.task[t].att = 0, !.task[t].polls = 0]

\* an operation on a device after its ensureConnected() returned: registry lookup,
\* capability test, payload, then send()
AfterEnsure(S, t) ==
    LET c == S.task[t].call
        scaled == c.op \in {"vibrate", "rotate", "linear"}
    IN  IF c.dev \notin DOMAIN S.devices
        THEN Finish(S, t, "Device not found", FALSE)
        ELSE IF scaled /\ Motors(S.devices[c.dev], c.op) = 0
        THEN Finish(S, t, Unsupported(c.op), FALSE)
        ELSE IF ~isConnected(S)
        THEN Finish(S, t, "Not connected", TRUE)
        ELSE LET args == IF scaled
                         THEN Scalars(Motors(S.devices[c.dev], c.op), S.task[t].motor,
                                      c.str)
                         ELSE <<>>
                 S1 == send(S, CommandType(c.op), c.dev, args)
             IN  [S1 EXCEPT !.task[t].pc = "awaitReply", !.task[t].req = S.messageId,
                            !.task[t].att = 0, !.task[t].polls = 0]

\* ensureConnected(): the polling loop, entered at iteration i
PollLoop(S, t, i) ==
    IF i < PollIterations /\ DOMAIN S.devices = {}
    THEN [S EXCEPT !.task[t].pc = "poll", !.task[t].polls = i + 1, !.task[t].att = 0]
    ELSE AfterEnsure(S, t)

\* the promise returned by connect() to task t settled with outcome
ConnectReturned(S, t, outcome) ==
    IF S.task[t].kind = "connect"
    THEN [S EXCEPT !.task[t] = [IdleTask EXCEPT !.kind = "connect", !.pc = "done",
                                                !.seen = S.task[t].seen,
                                                !.result = outcome]]
    ELSE IF outcome = "ok" THEN PollLoop(S, t, 0) ELSE Finish(S, t, outcome, FALSE)

\* ---------------------------------------------------------------------------
\* Connection manager

NextSocket(S) == Cardinality({s \in Sockets : S.readyState[s] # "NONE"}) + 1

\* connect() called by task t, up to its return.  The executor of the new promise
\* runs before the promise is assigned to this.connectionPromise: when it rejects for
\* a missing address, or for a constructor that throws (and sets the field to null),
\* the assignment stores the rejected promise.  Such an attempt takes a socket number
\* and has no socket (readyState "UNBUILT")
connect(S, t) ==
    IF isConnected(S)
    THEN ConnectReturned(S, t, "ok")
    ELSE IF S.connectionPromise # 0
    THEN [S EXCEPT !.task[t].pc = "awaitConn", !.task[t].att = S.connectionPromise]
    ELSE LET a == NextSocket(S)
         IN  IF ~S.wsUrl \/ S.throws
             THEN [S EXCEPT !.readyState[a] = "UNBUILT",
                            !.attempt[a] = IF ~S.wsUrl THEN "WebSocket URL not set"
                                           ELSE "Constructor error",
                            !.connectionPromise = a,
                            !.task[t].pc = "awaitConn",
                            !.task[t].att = a]
             ELSE [S EXCEPT !.ws = a,
                            !.readyState[a] = "CONNECTING",
                            !.attempt[a] = "pending",
                            !.timeout[a] = "armed",
                            !.connectionPromise = a,
                            !.task[t].pc = "awaitConn",
                            !.task[t].att = a]

\* ensureConnected() called by task t
ensureConnected(S, t) ==
    IF ~isConnected(S) THEN connect(S, t) ELSE PollLoop(S, t, 0)

\* the connect attempt that is neither resolved nor rejected, 0 when there is none
PendingAttempt(S) ==
    IF \E a \in Sockets : S.attempt[a] = "pending"
    THEN CHOOSE a \in Sockets : S.attempt[a] = "pending"
    ELSE 0

\* task t enters an async method; call is the vibrate()/stop() call it makes, if any,
\* and a connect() caller notes the attempt that is pending when it calls
Begin(S, t, kind, call, count) ==
    [S EXCEPT !.called = IF call.op = "none" THEN @ ELSE Append(@, call),
              !.task[t] = [IdleTask EXCEPT
                              !.kind = kind, !.call = call, !.count = count,
                              !.seen = IF kind = "connect" THEN PendingAttempt(S) ELSE 0]]

\* a caller may start in the first free slot, while ids and sockets are left
CanStart(t) ==
    /\ task[t].pc \in {"idle", "done"}
    /\ \A u \in Tasks : u < t => task[u].pc \notin {"idle", "done"}
    /\ messageId <= MaxId
    /\ (isConnected(Cur) \/ connectionPromise # 0 \/ NextSocket(Cur) <= MaxSockets)

\* the operation invoked in a step, with its arguments
Invoke(S, op, a, d, s, c) ==
    [S EXCEPT !.invoked = <<[op |-> op, active |-> a, device |-> d, strength |-> s,
                             count |-> c, motor |-> NoMotor]>>]

ConnectCall(t) ==
    /\ CanStart(t)
    /\ Commit(Invoke(connect(Begin(Cur, t, "connect", NoCall, 0), t),
                     "connect", FALSE, 0, 0, 0))

\* connect() called by task t when new WebSocket(wsUrl) throws
ConnectCallThrows(t) ==
    /\ CanStart(t)
    /\ wsUrl /\ ~isConnected(Cur) /\ connectionPromise = 0
    /\ Commit(Invoke(connect(Begin([Cur EXCEPT !.throws = TRUE], t, "connect", NoCall, 0),
                             t),
                     "connect", FALSE, 0, 0, 0))

\* the promise task t awaits in connect() has settled
ConnectResume(t) ==
    /\ task[t].pc = "awaitConn"
    /\ attempt[task[t].att] \notin {"none", "pending"}
    /\ Commit(ConnectReturned(Cur, t, attempt[task[t].att]))

\* ws.close(): a socket that is connecting or open starts closing
close(S, s) ==
    IF S.readyState[s] \in {"CONNECTING", "OPEN"}
    THEN [S EXCEPT !.readyState[s] = "CLOSING"]
    ELSE S

clearTimeout(S, s) ==
    IF S.timeout[s] = "armed" THEN [S EXCEPT !.timeout[s] = "cleared"] ELSE S

\* the k-th request of the ws.onopen handler of socket s: await this.send(...)
HandshakeTypes == <<"RequestServerInfo", "RequestDeviceList", "StartScanning">>

HandshakeEnd(S, s, outcome) ==
    [Settle(S, s, outcome) EXCEPT !.connectionPromise = 0,
                                  !.onopen[s] = [step |-> 4, req |-> 0]]

HandshakeSend(S, s, k) ==
    IF ~isConnected(S)
    THEN HandshakeEnd(S, s, "Not connected")
    ELSE [send(S, HandshakeTypes[k], NoIndex, <<>>) EXCEPT
              !.onopen[s] = [step |-> k, req |-> S.messageId]]

\* a handler without the try/catch: a rejected request is taken for its reply
HandshakeReplyIgnoresError(S, s, ok) ==
    IF S.onopen[s].step < 3 THEN HandshakeSend(S, s, S.onopen[s].step + 1)
    ELSE HandshakeEnd(S, s, "ok")

\* the request the handler of socket s awaits was resolved (ok) or rejected
HandshakeReply(S, s, ok) ==
    IF ~ok THEN HandshakeEnd(S, s, "Server error")
    ELSE IF S.onopen[s].step < 3 THEN HandshakeSend(S, s, S.onopen[s].step + 1)
    ELSE HandshakeEnd(S, s, "ok")

\* ws.onopen of socket s
OnOpen(S, s) ==
    HandshakeSend(clearTimeout([S EXCEPT !.readyState[s] = "OPEN"], s), s, 1)

OpenEvent(s) ==
    /\ readyState[s] = "CONNECTING"
    /\ Commit(OnOpen(Cur, s))

\* the setTimeout callback of the connect() that built socket s
OnTimeout(S, s) ==
    LET S1 == IF S.ws # 0 THEN close(S, S.ws) ELSE S
    IN  [Settle(S1, s, "Connection timeout") EXCEPT !.timeout[s] = "fired",
                                                    !.connectionPromise = 0]

TimeoutFire(s) ==
    /\ timeout[s] = "armed"
    /\ Commit(OnTimeout(Cur, s))

\* ws.onerror of socket s; the socket has failed and its close event follows
OnError(S, s) ==
    [Settle(clearTimeout([S EXCEPT !.readyState[s] = "FAILED"], s), s, "WebSocket error")
        EXCEPT !.connectionPromise = 0]

ErrorEvent(s) ==
    /\ readyState[s] \in {"CONNECTING", "OPEN", "CLOSING"}
    /\ Commit(OnError(Cur, s))

\* a close handler that restarts the numbering of requests with the connection
OnCloseResetsIds(S, s) ==
    [S EXCEPT !.readyState[s] = "CLOSED",
              !.ws = 0,
              !.devices = NoDevices,
              !.pendingMessages = {},
              !.messageId = 1]

\* ws.onclose of socket s
OnClose(S, s) ==
    [S EXCEPT !.readyState[s] = "CLOSED",
              !.ws = 0,
              !.devices = NoDevices,
              !.pendingMessages = {}]

CloseEvent(s) ==
    /\ readyState[s] \in {"OPEN", "CLOSING", "FAILED"}
    /\ Commit(OnClose(Cur, s))

\* disconnect()
disconnect(S) ==
    LET S1 == IF S.ws # 0 THEN [close(S, S.ws) EXCEPT !.ws = 0] ELSE S
    IN  [S1 EXCEPT !.devices = NoDevices]

Disconnect == Commit(Invoke(disconnect(Cur), "disconnect", FALSE, 0, 0, 0))

\* ---------------------------------------------------------------------------
\* Incoming frames

\* the caller waiting for request id: the onopen handler of a socket, or a task
HandshakeWaiting(S, id) == {s \in Sockets : S.onopen[s].step \in 1..3 /\ S.onopen[s].req = id}
TaskWaiting(S, id) == {t \in Tasks : S.task[t].pc = "awaitReply" /\ S.task[t].req = id}

\* pending.resolve(content) / pending.reject(error) and what the awaiting caller does next
Complete(S, id, ok) ==
    IF HandshakeWaiting(S, id) # {}
    THEN HandshakeReply(S, CHOOSE s \in HandshakeWaiting(S, id) : TRUE, ok)
    ELSE IF TaskWaiting(S, id) # {}
    THEN Finish(S, CHOOSE t \in TaskWaiting(S, id) : TRUE,
                IF ok THEN "ok" ELSE "Server error", TRUE)
    ELSE S

\* const pending = this.pendingMessages.get(id); if (pending) { delete; resolve/reject }
Reply(S, id, ok) ==
    IF id \in S.pendingMessages
    THEN Complete([S EXCEPT !.pendingMessages = @ \ {id},
                            !.completed = Append(@, [Id |-> id, ok |-> ok])], id, ok)
    ELSE S

\* this.devices.set(device.index, device) for every device of the map ds
SetDevices(reg, ds) ==
    [i \in DOMAIN reg \cup DOMAIN ds |-> IF i \in DOMAIN ds THEN ds[i] ELSE reg[i]]

\* handleMessage(): one frame carrying one message m
handleMessage(S, m) ==
    CASE m.type = "DeviceAdded" ->
            [S EXCEPT !.devices = SetDevices(@, m.devs)]
      [] m.type = "DeviceRemoved" ->
            [S EXCEPT !.devices = [i \in DOMAIN @ \ {m.idx} |-> @[i]]]
      [] m.type = "DeviceList" ->
            Reply([S EXCEPT !.devices = SetDevices(@, m.devs)], m.Id, TRUE)
      [] m.type = "Error" -> Reply(S, m.Id, FALSE)
      [] m.type \in {"Ok", "ServerInfo"} -> Reply(S, m.Id, TRUE)
      [] OTHER -> S

Msg(type, id, devs, idx) == [type |-> type, Id |-> id, devs |-> devs, idx |-> idx]

\* the frames a server may send about the devices of R while the requests P are
\* pending: Id 0 is never issued and stands for every id without a pending request
MessagesAbout(P, R) ==
    {Msg(ty, id, NoDevices, 0) : ty \in {"Ok", "ServerInfo", "Error"}, id \in P \cup {0}}
    \cup {Msg("DeviceList", id, ds, 0) : id \in P \cup {0}, ds \in R}
    \cup {Msg("DeviceAdded", 0, ds, 0) : ds \in {r \in R : Cardinality(DOMAIN r) = 1}}
    \cup {Msg("DeviceRemoved", 0, NoDevices, i) : i \in DevIdx}
    \cup {Msg(ty, 0, NoDevices, 0) : ty \in {"ScanningFinished", "Unknown"}}

Messages(P) == MessagesAbout(P, Registries)

\* a server whose devices have several motors and capabilities
ToyMessages(P) == MessagesAbout(P, ToyRegistries)

\* ws.onmessage of socket s: frames arrive while it is open or closing after it was open
Frame(s, m) ==
    /\ readyState[s] = "OPEN" \/ (readyState[s] = "CLOSING" /\ onopen[s].step > 0)
    /\ Commit(handleMessage(Cur, m))

\* ---------------------------------------------------------------------------
\* Incoming frames as they are on the wire: a JSON text holding a sequence of entries

\* a device message: DeviceIndex and the lengths of DeviceMessages.RotateCmd and
\* .LinearCmd, with the actuator types of .ScalarCmd; one without DeviceMessages is
\* not readable
WireDevice(i, scalar, r, l) ==
    [DeviceIndex |-> i, ScalarCmd |-> scalar, RotateCmd |-> r, LinearCmd |-> l,
     readable |-> TRUE]
BadDevice == [WireDevice(0, <<>>, 0, 0) EXCEPT !.readable = FALSE]

\* parseDevice(): the vibrate motors are the ScalarCmd actuators of type Vibrate
parseDevice(d) ==
    [vibrate |-> Cardinality({k \in DOMAIN d.ScalarCmd : d.ScalarCmd[k] = "Vibrate"}),
     rotate |-> d.RotateCmd,
     linear |-> d.LinearCmd]

\* this.devices.set(index, device) keeping the capabilities the new descriptor lacks
RegisterMerging(reg, i, d) ==
    [j \in DOMAIN reg \cup {i} |->
        IF j # i THEN reg[j]
        ELSE IF i \notin DOMAIN reg THEN d
        ELSE [c \in DOMAIN d |-> IF d[c] # 0 THEN d[c] ELSE reg[i][c]]]

\* this.devices.set(index, device)
Register(reg, i, d) ==
    [j \in DOMAIN reg \cup {i} |-> IF j = i THEN d ELSE reg[j]]

\* a resolve that leaves the request in the table
TakeKeepsPending(S, id, ok) ==
    IF id \in S.pendingMessages
    THEN [S EXCEPT !.completed = Append(@, [Id |-> id, ok |-> ok])]
    ELSE S

\* const pending = this.pendingMessages.get(id); if (pending) { delete; resolve/reject }:
\* the awaiting caller goes on after handleMessage() has returned
Take(S, id, ok) ==
    IF id \in S.pendingMessages
    THEN [S EXCEPT !.pendingMessages = @ \ {id},
                   !.completed = Append(@, [Id |-> id, ok |-> ok])]
    ELSE S

\* an entry of a frame: one object with one key, its type.  An entry that is null, a
\* number, an empty object, or whose content is null cannot be read
Entry(type, id, devs, idx) ==
    [readable |-> TRUE, type |-> type, Id |-> id, Devices |-> devs, DeviceIndex |-> idx]
Unreadable == [Entry("", 0, <<>>, 0) EXCEPT !.readable = FALSE]

\* the loop over content.Devices of a DeviceList, from its k-th device on; the
\* pending request is resolved after the loop
RECURSIVE DeviceListFrom(_, _, _)
DeviceListFrom(S, e, k) ==
    IF k > Len(e.Devices) THEN Take(S, e.Id, TRUE)
    ELSE IF ~e.Devices[k].readable THEN [S EXCEPT !.threw = TRUE]
    ELSE DeviceListFrom([S EXCEPT !.devices = Register(@, e.Devices[k].DeviceIndex,
                                                        parseDevice(e.Devices[k]))],
                        e, k + 1)

\* the body of the loop of handleMessage() for one entry
Route(S, e) ==
    IF ~e.readable THEN [S EXCEPT !.threw = TRUE]
    ELSE CASE e.type = "DeviceAdded" ->
                  IF ~e.Devices[1].readable THEN [S EXCEPT !.threw = TRUE]
                  ELSE [S EXCEPT !.devices = Register(@, e.Devices[1].DeviceIndex,
                                                       parseDevice(e.Devices[1]))]
           [] e.type = "DeviceRemoved" ->
                  [S EXCEPT !.devices = [i \in DOMAIN @ \ {e.DeviceIndex} |-> @[i]]]
           [] e.type = "DeviceList" -> DeviceListFrom(S, e, 1)
           [] e.type = "Error" -> Take(S, e.Id, FALSE)
           [] e.type \in {"Ok", "ServerInfo"} -> Take(S, e.Id, TRUE)
           [] OTHER -> S

\* for (const msg of messages), from the k-th entry on, until an entry throws
RECURSIVE RouteFrom(_, _, _)
RouteFrom(S, es, k) ==
    IF k > Len(es) \/ S.threw THEN S
    ELSE RouteFrom(Route(S, es[k]), es, k + 1)

\* the callers whose requests the frame completed go on, in the order of completion
RECURSIVE Continue(_, _)
Continue(S, k) ==
    IF k > Len(S.completed) THEN S
    ELSE Continue(Complete(S, S.completed[k].Id, S.completed[k].ok), k + 1)

\* handleMessage(data): JSON.parse throws on a text that is not JSON, and the catch
\* block logs whatever was thrown
handleFrame(S, f) ==
    IF ~f.json THEN S ELSE Continue(RouteFrom(S, f.entries, 1), 1)

\* ws.onmessage of socket s with the frame f
Receive(s, f) ==
    /\ readyState[s] = "OPEN" \/ (readyState[s] = "CLOSING" /\ onopen[s].step > 0)
    /\ Commit([handleFrame(Cur, f) EXCEPT !.received = <<f>>])

\* the devices of a server: one with vibrate motors among its scalar actuators and a
\* linear axis, one that only rotates
WireDevices ==
    {WireDevice(i, [k \in 1..(MaxMotors + 1) |-> IF k = 2 THEN "Oscillate" ELSE "Vibrate"],
                0, 1) : i \in DevIdx}
    \cup {WireDevice(i, <<>>, 1, 0) : i \in DevIdx}

\* the Devices arrays of a DeviceList: readable ones of up to two devices, and ones
\* that hold a device that is not readable
DeviceLists ==
    {<<>>} \cup {<<d>> : d \in WireDevices}
    \cup {<<d1, d2>> : d1 \in WireDevices, d2 \in WireDevices \cup {BadDevice}}

\* replies to the requests P and to Id 0, which no request carries
Replies(P) ==
    {Entry(ty, id, <<>>, 0) : ty \in {"Ok", "ServerInfo", "Error"}, id \in P \cup {0}}
Answers(P) == {e \in Replies(P) : e.type # "ServerInfo"}
Events ==
    {Entry("DeviceAdded", 0, <<d>>, 0) : d \in WireDevices \cup {BadDevice}}
    \cup {Entry("DeviceRemoved", 0, <<>>, i) : i \in DevIdx}
    \cup {Entry("ScanningFinished", 0, <<>>, 0)}
Lists(P) == {Entry("DeviceList", id, l, 0) : id \in P \cup {0}, l \in DeviceLists}

Text(es) == [json |-> TRUE, entries |-> es]
NotJson == [json |-> FALSE, entries |-> <<>>]

\* the frames a server may send while the requests P are pending: one entry, a
\* readable entry followed by an unreadable one, two replies, or two events
Frames(P) ==
    {NotJson}
    \cup {Text(<<e>>) : e \in Replies(P) \cup Events \cup Lists(P) \cup {Unreadable}}
    \cup {Text(<<e, Unreadable>>) : e \in Answers(P) \cup Events}
    \cup {Text(<<e1, e2>>) : e1 \in Answers(P), e2 \in Answers(P)}
    \cup {Text(<<e1, e2>>) : e1 \in Events, e2 \in Events}

\* ---------------------------------------------------------------------------
\* Presence controller

\* the 500 ms timer of ensureConnected() of task t fired
PollTick(t) ==
    /\ task[t].pc = "poll"
    /\ Commit(PollLoop(Cur, t, task[t].polls))

NotifRunning(S) == {t \in Tasks : S.task[t].kind = "notif" /\ S.task[t].pc # "done"}

\* setState() taking every activating call for a new activation
setStateResetsSince(S, t, a, d, s) ==
    LET isChanging == a # S.active
        S0 == [S EXCEPT !.active = a, !.device = d, !.strength = s,
                        !.since = IF a THEN S.now ELSE 0]
    IN  IF isChanging
        THEN ensureConnected(
                 Begin(S0, t, "setState",
                       IF a THEN [op |-> "vibrate", dev |-> d, str |-> s]
                            ELSE [op |-> "stop", dev |-> d, str |-> 0], 0), t)
        ELSE ActuationDone(Begin(S0, t, "setState", NoCall, 0), t, "ok")

\* setState() storing device and strength only when the active flag changes
setStateLazy(S, t, a, d, s) ==
    LET wasActive == S.active
        isChanging == a # wasActive
        S0 == [S EXCEPT !.active = a,
                        !.device = IF isChanging THEN d ELSE @,
                        !.strength = IF isChanging THEN s ELSE @,
                        !.since = IF a THEN (IF wasActive THEN @ ELSE S.now) ELSE 0]
    IN  IF isChanging
        THEN ensureConnected(
                 Begin(S0, t, "setState",
                       IF a THEN [op |-> "vibrate", dev |-> d, str |-> s]
                            ELSE [op |-> "stop", dev |-> d, str |-> 0], 0), t)
        ELSE ActuationDone(Begin(S0, t, "setState", NoCall, 0), t, "ok")

\* setState(a, d, s) called by task t
setState(S, t, a, d, s) ==
    LET wasActive == S.active
        isChanging == a # wasActive
        S0 == [S EXCEPT !.active = a,
                        !.device = d,
                        !.strength = s,
                        !.since = IF a THEN (IF wasActive THEN @ ELSE S.now) ELSE 0,
                        !.vibrated = IF a THEN (IF wasActive THEN @ ELSE d) ELSE NoIndex]
    IN  IF isChanging
        THEN ensureConnected(
                 Begin(S0, t, "setState",
                       IF a THEN [op |-> "vibrate", dev |-> d, str |-> s]
                            ELSE [op |-> "stop", dev |-> d, str |-> 0], 0), t)
        ELSE ActuationDone(Begin(S0, t, "setState", NoCall, 0), t, "ok")

\* a bridge that funnels its edges through setState()
onSessionStateMessageViaSetState(S, t, c) ==
    LET S0 == [S EXCEPT !.prevDelivered = c, !.lastWorkingCount = c]
    IN  IF c # S.lastWorkingCount /\ (c > 0) # (S.lastWorkingCount > 0)
        THEN setState(S0, t, c > 0, S.device, S.strength)
        ELSE ActuationDone(Begin(S0, t, "notif", NoCall, c), t, "ok")

\* onSessionStateMessage({type: "state", working: c}) called by task t
onSessionStateMessage(S, t, c) ==
    LET workingChanged == c # S.lastWorkingCount
        isNowWorking == c > 0
        wasWorking == S.lastWorkingCount > 0
        S0 == [S EXCEPT !.prevDelivered = c,
                        !.overlapped = @ \/ NotifRunning(S) # {},
                        !.lastEdge = IF workingChanged /\ isNowWorking # wasWorking
                                     THEN (IF isNowWorking THEN "vibrate" ELSE "stop")
                                     ELSE @]
    IN  IF workingChanged /\ isNowWorking # wasWorking
        THEN ensureConnected(
                 Begin(S0, t, "notif",
                       IF isNowWorking
                       THEN [op |-> "vibrate", dev |-> S.device, str |-> S.strength]
                       ELSE [op |-> "stop", dev |-> S.device, str |-> 0], c), t)
        ELSE ActuationDone(Begin(S0, t, "notif", NoCall, c), t, "ok")

Notify(t, c) ==
    /\ CanStart(t)
    /\ Commit(Invoke(onSessionStateMessage(Cur, t, c), "notify", FALSE, 0, 0, c))

SetStateCall(t, a, d, s) ==
    /\ CanStart(t)
    /\ Commit(Invoke(setState(Cur, t, a, d, s), "setState", a, d, s, 0))

\* start(d, s)
Start(t, d, s) ==
    /\ CanStart(t)
    /\ Commit(Invoke(setState(Cur, t, TRUE, d, s), "setState", TRUE, d, s, 0))

\* toggle(d, s)
Toggle(t, d, s) ==
    /\ CanStart(t)
    /\ Commit(Invoke(setState(Cur, t, ~active, d, s), "setState", ~active, d, s, 0))

\* restore()
Restore(t) ==
    /\ CanStart(t)
    /\ Commit(Invoke(setState(Cur, t, active, device, strength),
                     "setState", active, device, strength, 0))

\* ---------------------------------------------------------------------------
\* Actuation layer, called directly

\* vibrate(), rotate(), linear(), stop() and getBattery() start alike: task t awaits
\* ensureConnected() and goes on in AfterEnsure.  (Clockwise and Duration are copied
\* into every entry of the payload and are left out.)
operation(S, t, kind, op, d, x, m) ==
    ensureConnected([Begin(S, t, kind, [op |-> op, dev |-> d, str |-> x], 0)
                        EXCEPT !.task[t].motor = m], t)

vibrate(S, t, d, x, m) == operation(S, t, "call", "vibrate", d, x, m)
rotate(S, t, d, x, m) == operation(S, t, "call", "rotate", d, x, m)
linear(S, t, d, x, m) == operation(S, t, "call", "linear", d, x, m)
stop(S, t, d) == operation(S, t, "call", "stop", d, 0, NoMotor)
getBattery(S, t, d) == operation(S, t, "battery", "battery", d, 0, NoMotor)

\* a stopAll() that connects and waits for a device like the other operations
stopAllEnsuring(S, t) == operation(S, t, "stopAll", "stopAll", NoIndex, 0, NoMotor)

\* stopAll() called by task t
stopAll(S, t) ==
    LET S0 == [S EXCEPT !.task[t] = [IdleTask EXCEPT !.kind = "stopAll"]]
    IN  IF ~isConnected(S)
        THEN Finish(S0, t, "ok", FALSE)
        ELSE [send(S0, "StopAllDevices", NoIndex, <<>>) EXCEPT
                  !.task[t].pc = "awaitReply", !.task[t].req = S.messageId]

\* the operation invoked in a step of the actuation layer
InvokeCall(S, op, d, x, m) ==
    [S EXCEPT !.invoked = <<[op |-> op, active |-> FALSE, device |-> d, strength |-> x,
                             count |-> 0, motor |-> m]>>]

VibrateCall(t, d, x, m) ==
    /\ CanStart(t)
    /\ Commit(InvokeCall(vibrate(Cur, t, d, x, m), "vibrate", d, x, m))

RotateCall(t, d, x, m) ==
    /\ CanStart(t)
    /\ Commit(InvokeCall(rotate(Cur, t, d, x, m), "rotate", d, x, m))

LinearCall(t, d, x, m) ==
    /\ CanStart(t)
    /\ Commit(InvokeCall(linear(Cur, t, d, x, m), "linear", d, x, m))

StopCall(t, d) ==
    /\ CanStart(t)
    /\ Commit(InvokeCall(stop(Cur, t, d), "stop", d, 0, NoMotor))

StopAllCall(t) ==
    /\ CanStart(t)
    /\ Commit(InvokeCall(stopAll(Cur, t), "stopAll", NoIndex, 0, NoMotor))

GetBatteryCall(t, d) ==
    /\ CanStart(t)
    /\ Commit(InvokeCall(getBattery(Cur, t, d), "getBattery", d, 0, NoMotor))

\* the wall clock advances
Tick ==
    /\ now < MaxClock
    /\ Commit([Cur EXCEPT !.now = @ + 1])

\* the connection manager under direct callers of connect() and disconnect()
Next ==
    \/ \E t \in Tasks : ConnectCall(t)
    \/ \E t \in Tasks : ConnectResume(t)
    \/ \E s \in Sockets : OpenEvent(s)
    \/ \E s \in Sockets : TimeoutFire(s)
    \/ \E s \in Sockets : ErrorEvent(s)
    \/ \E s \in Sockets : CloseEvent(s)
    \/ \E s \in Sockets : \E m \in Messages(pendingMessages) : Frame(s, m)
    \/ Disconnect

Spec == Init /\ [][Next]_vars

\* the work-signal bridge, one notification at a time
BridgeNext ==
    \/ \E t \in Solo : \E c \in Counts : Notify(t, c)
    \/ \E t \in Tasks : ConnectResume(t)
    \/ \E t \in Tasks : PollTick(t)
    \/ \E s \in Sockets : OpenEvent(s)
    \/ \E s \in Sockets : TimeoutFire(s)
    \/ \E s \in Sockets : ErrorEvent(s)
    \/ \E s \in Sockets : CloseEvent(s)
    \/ \E s \in Sockets : \E m \in Messages(pendingMessages) : Frame(s, m)

BridgeSpec == Init /\ [][BridgeNext]_vars

\* explicit control, one call at a time
PresenceNext ==
    \/ \E t \in Solo : \E a \in BOOLEAN : \E d \in DevArgs : \E s \in Strengths :
           SetStateCall(t, a, d, s)
    \/ \E t \in Solo : \E d \in DevArgs : \E s \in Strengths : Start(t, d, s)
    \/ \E t \in Solo : \E d \in DevArgs : \E s \in Strengths : Toggle(t, d, s)
    \/ \E t \in Solo : Restore(t)
    \/ Tick
    \/ \E t \in Tasks : ConnectResume(t)
    \/ \E t \in Tasks : PollTick(t)
    \/ \E s \in Sockets : OpenEvent(s)
    \/ \E s \in Sockets : TimeoutFire(s)
    \/ \E s \in Sockets : ErrorEvent(s)
    \/ \E s \in Sockets : CloseEvent(s)
    \/ \E s \in Sockets : \E m \in Messages(pendingMessages) : Frame(s, m)

PresenceSpec == Init /\ [][PresenceNext]_vars

\* toggle() with its default arguments
ToggleDefault(t) == Toggle(t, 0, DEFAULT_STRENGTH)

\* both entry points of the presence controller
ControlNext ==
    \/ \E t \in Solo : \E c \in Counts : Notify(t, c)
    \/ \E t \in Solo : ToggleDefault(t)
    \/ \E t \in Tasks : ConnectResume(t)
    \/ \E t \in Tasks : PollTick(t)
    \/ \E s \in Sockets : OpenEvent(s)
    \/ \E s \in Sockets : TimeoutFire(s)
    \/ \E s \in Sockets : ErrorEvent(s)
    \/ \E s \in Sockets : CloseEvent(s)
    \/ \E s \in Sockets : \E m \in Messages(pendingMessages) : Frame(s, m)

ControlSpec == Init /\ [][ControlNext]_vars

\* the actuation layer under one direct caller at a time
ActuationNext ==
    \/ \E t \in Solo : \E d \in DevArgs : \E x \in Values : \E m \in MotorArgs :
           VibrateCall(t, d, x, m)
    \/ \E t \in Solo : \E d \in DevArgs : RotateCall(t, d, 50, NoMotor)
    \/ \E t \in Solo : \E d \in DevArgs : LinearCall(t, d, 50, NoMotor)
    \/ \E t \in Solo : \E d \in DevArgs : StopCall(t, d)
    \/ \E t \in Solo : StopAllCall(t)
    \/ \E t \in Solo : \E d \in DevArgs : GetBatteryCall(t, d)
    \/ \E t \in Tasks : ConnectResume(t)
    \/ \E t \in Tasks : PollTick(t)
    \/ \E s \in Sockets : OpenEvent(s)
    \/ \E s \in Sockets : TimeoutFire(s)
    \/ \E s \in Sockets : ErrorEvent(s)
    \/ \E s \in Sockets : CloseEvent(s)
    \/ \E s \in Sockets : \E m \in ToyMessages(pendingMessages) : Frame(s, m)

ActuationSpec == Init /\ [][ActuationNext]_vars

\* callers of connect() with any address and a constructor that may throw
RetryNext ==
    \/ \E t \in Tasks : ConnectCall(t)
    \/ \E t \in Tasks : ConnectCallThrows(t)
    \/ \E t \in Tasks : ConnectResume(t)
    \/ \E s \in Sockets : OpenEvent(s)
    \/ \E s \in Sockets : TimeoutFire(s)
    \/ \E s \in Sockets : ErrorEvent(s)
    \/ \E s \in Sockets : CloseEvent(s)
    \/ \E s \in Sockets : \E m \in Messages(pendingMessages) : Frame(s, m)

RetrySpec == InitAnyUrl /\ [][RetryNext]_vars

\* a caller of stop() while the connection comes and goes under other callers
SendNext ==
    \/ \E t \in Solo : \E d \in DevIdx : StopCall(t, d)
    \/ \E t \in Tasks \ Solo : ConnectCall(t)
    \/ \E t \in Tasks : ConnectResume(t)
    \/ \E t \in Tasks : PollTick(t)
    \/ \E s \in Sockets : OpenEvent(s)
    \/ \E s \in Sockets : TimeoutFire(s)
    \/ \E s \in Sockets : ErrorEvent(s)
    \/ \E s \in Sockets : CloseEvent(s)
    \/ \E s \in Sockets : \E m \in Messages(pendingMessages) : Frame(s, m)

SendSpec == Init /\ [][SendNext]_vars

\* the routing of frames: a connect() caller, a stopAll() caller beside it
CodecNext ==
    \/ \E t \in Solo : ConnectCall(t)
    \/ \E t \in Tasks \ Solo : StopAllCall(t)
    \/ \E t \in Tasks : ConnectResume(t)
    \/ \E s \in Sockets : OpenEvent(s)
    \/ \E s \in Sockets : CloseEvent(s)
    \/ \E s \in Sockets : \E f \in Frames(pendingMessages) : Receive(s, f)

CodecSpec == Init /\ [][CodecNext]_vars

\* the frames of a server that only answers the requests P it was sent
AnswersTo(P) ==
    {Msg(ty, id, NoDevices, 0) : ty \in {"Ok", "ServerInfo", "Error"}, id \in P}
    \cup {Msg("DeviceList", id, ds, 0) : id \in P, ds \in Registries}

\* the work-signal bridge under notifications that may overlap
OverlapNext ==
    \/ \E t \in Tasks : \E c \in Counts : Notify(t, c)
    \/ \E t \in Tasks : ConnectResume(t)
    \/ \E t \in Tasks : PollTick(t)
    \/ \E s \in Sockets : OpenEvent(s)
    \/ \E s \in Sockets : TimeoutFire(s)
    \/ \E s \in Sockets : CloseEvent(s)
    \/ \E s \in Sockets : \E m \in AnswersTo(pendingMessages) : Frame(s, m)

OverlapSpec == Init /\ [][OverlapNext]_vars

\* What the runtime guarantees: an armed timer fires, and a caller awaiting a settled
\* promise resumes.  Nothing obliges the server to open, answer or close a socket.
Fairness ==
    /\ \A s \in Sockets : WF_vars(TimeoutFire(s))
    /\ \A t \in Tasks : WF_vars(ConnectResume(t))
    /\ \A t \in Tasks : WF_vars(PollTick(t))

LiveSpec == Init /\ [][Next]_vars /\ Fairness

BridgeLiveSpec == Init /\ [][BridgeNext]_vars /\ Fairness

\* ---------------------------------------------------------------------------
\* Claims about the connection manager

Settled(a) == attempt[a] \notin {"none", "pending"}
ConnectCallers == {t \in Tasks : task[t].kind = "connect"}

\* C1: every connect() issued while an attempt is pending joins that attempt (no other
\* socket is built for it) and observes that attempt's outcome, in every phase of the
\* attempt, the handshake included.
C1_SharedOutcome ==
    \A t \in ConnectCallers :
        task[t].seen # 0 =>
            /\ task[t].pc = "awaitConn" => task[t].att = task[t].seen
            /\ (task[t].pc = "done" /\ Settled(task[t].seen)) =>
                   task[t].result = attempt[task[t].seen]

\* C2: a step in which a socket's close event fires leaves the registry and the pending
\* table empty, this.ws null and no connect attempt recorded as in flight.
C2_CloseResets ==
    [][\A s \in Sockets :
          (readyState[s] # "CLOSED" /\ readyState'[s] = "CLOSED") =>
              /\ devices' = NoDevices
              /\ pendingMessages' = {}
              /\ ws' = 0
              /\ connectionPromise' = 0]_vars

\* C3: every connect attempt eventually resolves or fails.
C3_AttemptEnds ==
    \A a \in Sockets : (attempt[a] = "pending") ~> Settled(a)

\* the step resolves / rejects the pending request id
Resolved(id) == completed' = <<[Id |-> id, ok |-> TRUE]>>
Rejected(id) == completed' = <<[Id |-> id, ok |-> FALSE]>>

\* what C4 asks of one step, for the onopen handler of socket s

C4_Step(s) ==
    LET k == onopen[s].step
        k1 == onopen'[s].step
    IN  /\ (readyState[s] = "CONNECTING" /\ readyState'[s] = "OPEN" /\ ws = s) => k1 = 1
        /\ (k1 \in 1..3 /\ onopen'[s] # onopen[s]) =>
               /\ k1 = k + 1
               /\ sent' = <<[sock |-> ws', type |-> HandshakeTypes[k1],
                             Id |-> onopen'[s].req, dev |-> NoIndex, args |-> <<>>]>>
               /\ onopen'[s].req = messageId
               /\ IF k1 = 1
                  THEN readyState[s] = "CONNECTING" /\ readyState'[s] = "OPEN"
                  ELSE Resolved(onopen[s].req)
        /\ (attempt[s] # "ok" /\ attempt'[s] = "ok") =>
               k = 3 /\ Resolved(onopen[s].req) /\ sent' = <<>>
        /\ (k \in 1..3 /\ Rejected(onopen[s].req)) =>
               k1 = 4 /\ attempt'[s] \notin {"pending", "ok"} /\ sent' = <<>>
        /\ (readyState[s] = "CONNECTING" /\ readyState'[s] = "OPEN" /\ k1 # 1) =>
               k1 = 4 /\ attempt'[s] \notin {"pending", "ok"}
        /\ (k \in 1..2 /\ Resolved(onopen[s].req) /\ k1 # k + 1) =>
               k1 = 4 /\ attempt'[s] \notin {"pending", "ok"}
        /\ (k = 3 /\ Resolved(onopen[s].req)) => k1 = 4
        /\ k = 4 => k1 = 4
        /\ (k1 = k /\ k \in 1..3) => onopen'[s].req = onopen[s].req

\* C4: the onopen handler of a socket writes RequestServerInfo when the socket opens,
\* RequestDeviceList in the step that resolves the first request and StartScanning in
\* the step that resolves the second; the attempt resolves only in the step that
\* resolves the third; a rejected request fails the attempt and ends the handler,
\* which writes nothing afterwards.
C4_HandshakeOrder ==
    [][/\ \A s \in Sockets : C4_Step(s)
       /\ sent' # <<>> => \E s \in Sockets : onopen'[s] # onopen[s]]_vars

C4_Witness ==
    \E s \in Sockets :
        /\ attempt[s] = "ok"
        /\ onopen[s].step = 4
        /\ completed # <<>>
        /\ messageId > 3

\* ---------------------------------------------------------------------------
\* Claims about the presence controller

Vibrate(d, s) == [op |-> "vibrate", dev |-> d, str |-> s]
Stop(d) == [op |-> "stop", dev |-> d, str |-> 0]
Presence == <<active, device, strength, since>>
\* the step is a call of op
Invoked(op) == invoked' # <<>> /\ invoked'[1].op = op

\* C5: while notifications are processed one after the other, a notification with
\* count c makes an actuation call exactly when (c > 0) differs from (previous count
\* > 0): vibrate(device, strength) on a rising edge, stop(device) on a falling edge,
\* with the controller's fields, and no call otherwise.
C5_EdgeCalls ==
    [][(Invoked("notify") /\ ~overlapped') =>
          LET c == invoked'[1].count
          IN  called' = IF (c > 0) = (prevDelivered > 0) THEN <<>>
                        ELSE IF c > 0 THEN <<Vibrate(device, strength)>>
                        ELSE <<Stop(device)>>]_vars

C5_Witness ==
    /\ prevDelivered = 0
    /\ called = <<Stop(device)>>
    /\ task[1].kind = "notif" /\ task[1].pc = "awaitReply"
    /\ sent # <<>>

\* C6: every work-signal notification eventually completes (and then has recorded its
\* count).
C6_NotificationCompletes ==
    \A t \in Tasks :
        (task[t].kind = "notif" /\ task[t].pc # "done") ~> (task[t].pc = "done")

\* C7: since is non-null exactly when active is true; since takes a new value only in
\* a step that turns active from false to true and is kept while active stays true.
C7_Since ==
    /\ [](since # 0 <=> active)
    /\ [][/\ (since' # since /\ since' # 0) => (~active /\ active')
          /\ (active /\ active') => since' = since
          /\ ~active' => since' = 0]_vars

C7_Witness ==
    /\ invoked # <<>> /\ invoked[1].op = "setState" /\ invoked[1].active
    /\ active
    /\ since # 0
    /\ since < now

\* C8: setState(a, d, s) stores d and s whatever the active flag was, and calls
\* vibrate(d, s) when it activates, stop(d) when it deactivates, nothing otherwise.
C8_SetState ==
    [][Invoked("setState") =>
          LET a == invoked'[1].active
              d == invoked'[1].device
              s == invoked'[1].strength
          IN  /\ device' = d
              /\ strength' = s
              /\ called' = IF a = active THEN <<>>
                           ELSE IF a THEN <<Vibrate(d, s)>> ELSE <<Stop(d)>>]_vars

C8_Witness ==
    /\ invoked # <<>> /\ invoked[1].op = "setState" /\ invoked[1].active
    /\ called = <<>>
    /\ active /\ since < now
    /\ device = 1 /\ strength = 50

\* C9: a setState() call never ends with an error, whatever vibrate()/stop() did; the
\* call leaves active, device, strength and since at the requested values, and the
\* step in which the actuation ends (returning or throwing) does not change them.
C9_Swallowed ==
    /\ [](\A t \in Tasks :
             (task[t].kind = "setState" /\ task[t].pc = "done") => task[t].result = "ok")
    /\ [][/\ Invoked("setState") =>
                /\ active' = invoked'[1].active
                /\ device' = invoked'[1].device
                /\ strength' = invoked'[1].strength
                /\ since' = IF invoked'[1].active
                            THEN (IF active THEN since ELSE now) ELSE 0
          /\ \A t \in Tasks :
                (task[t].kind = "setState" /\ task[t].pc \notin {"idle", "done"}
                    /\ task'[t].pc = "done") => UNCHANGED Presence]_vars

C9_Witness ==
    /\ task[1].kind = "setState" /\ task[1].pc = "done"
    /\ task[1].caught = "Server error"
    /\ task[1].result = "ok"
    /\ active /\ since # 0

\* C10 as stated: a rising work-signal edge leaves the presence state Active and a
\* falling edge leaves it Idle.
C10_EdgeSetsPresence ==
    [][/\ (lastWorkingCount = 0 /\ lastWorkingCount' > 0) => (active' /\ since' # 0)
       /\ (lastWorkingCount > 0 /\ lastWorkingCount' = 0) => (~active' /\ since' = 0)]_vars

\* C10 amended: the bridge does not go through setState(): a notification calls
\* vibrate(device, strength) or stop(device) itself and neither its call nor its
\* completion changes active, device, strength or since.
C10_BridgeLeavesPresence ==
    [][/\ Invoked("notify") => UNCHANGED Presence
       /\ lastWorkingCount' # lastWorkingCount => UNCHANGED Presence]_vars

C10_Witness ==
    /\ lastWorkingCount > 0
    /\ ~active /\ since = 0
    /\ task[1].kind = "notif" /\ task[1].pc = "done" /\ task[1].caught = "none"
    /\ messageId > 4

\* ---------------------------------------------------------------------------
\* Claims about the request correlator

\* C11: ids are issued in increasing order from 1 and never again: the requests a
\* step writes carry the ids messageId, messageId + 1, ... in order, messageId never
\* decreases (over sends, closes and reconnects), and every pending id is smaller
\* than messageId.
C11_FreshIds ==
    /\ messageId = 1
    /\ [](\A id \in pendingMessages : id >= 1 /\ id < messageId)
    /\ [][/\ messageId' = messageId + Len(sent')
          /\ \A i \in 1..Len(sent') : sent'[i].Id = messageId + i - 1]_vars

C11_Witness ==
    /\ readyState[1] = "CLOSED"
    /\ sent # <<>> /\ sent[1].sock = 2 /\ sent[1].Id = 3
    /\ pendingMessages = {3}

\* the step in which a send() fails: the handshake of a socket, or an operation of a
\* task, ends with the not-connected error
SendFailed ==
    \/ \E s \in Sockets : attempt[s] = "pending" /\ attempt'[s] = "Not connected"
    \/ \E t \in Tasks : /\ task[t].pc # "done" /\ task'[t].pc = "done"
                         /\ task'[t].result = "Not connected"

\* C12: send() writes a frame only to a socket that is open (this.ws non-null and its
\* readyState OPEN); a send() while none is open fails in the same step with the
\* not-connected error, writes nothing and registers nothing.
C12_SendNotConnected ==
    [][/\ \A i \in 1..Len(sent') :
             /\ sent'[i].sock # 0
             /\ sent'[i].sock = ws'
             /\ readyState'[sent'[i].sock] = "OPEN"
       /\ SendFailed =>
             /\ sent' = <<>>
             /\ messageId' = messageId
             /\ pendingMessages' \subseteq pendingMessages]_vars

\* stop() ended in its send() while this.ws was a socket that is still connecting
C12_Witness ==
    /\ task[1].kind = "call" /\ task[1].pc = "done"
    /\ task[1].result = "Not connected"
    /\ ws # 0 /\ readyState[ws] = "CONNECTING"
    /\ \A s \in Sockets : attempt[s] # "Not connected"
    /\ sent = <<>>

\* the ids of the requests a step completed
CompletedIds == {completed'[i].Id : i \in 1..Len(completed')}
\* the types that resolve a request
Resolving == {"Ok", "ServerInfo", "DeviceList"}

\* C13: a request is completed only while it is pending, once, and leaves the table in
\* that step for good; it is resolved by an Ok, ServerInfo or DeviceList entry and
\* rejected by an Error entry of the received frame that carries its id; only the
\* callers awaiting the completed ids go on; a frame none of whose ids is pending
\* completes nobody and leaves the table as it was.
C13_CompletedOnce ==
    [][/\ \A i \in 1..Len(completed') :
             /\ completed'[i].Id \in pendingMessages
             /\ completed'[i].Id \notin pendingMessages'
             /\ \A j \in 1..Len(completed') : j # i => completed'[j].Id # completed'[i].Id
             /\ received' # <<>>
             /\ \E k \in DOMAIN received'[1].entries :
                    LET e == received'[1].entries[k]
                    IN  /\ e.readable
                        /\ e.Id = completed'[i].Id
                        /\ IF completed'[i].ok THEN e.type \in Resolving
                                               ELSE e.type = "Error"
       /\ \A id \in pendingMessages' \ pendingMessages : id >= messageId
       /\ received' # <<>> =>
             /\ pendingMessages \ pendingMessages' = CompletedIds
             /\ \A t \in Tasks : task'[t] # task[t] =>
                    task[t].pc = "awaitReply" /\ task[t].req \in CompletedIds
             /\ \A s \in Sockets : onopen'[s] # onopen[s] =>
                    onopen[s].req \in CompletedIds
             /\ (\A k \in DOMAIN received'[1].entries :
                    received'[1].entries[k].Id \notin pendingMessages) =>
                    /\ completed' = <<>>
                    /\ pendingMessages' = pendingMessages
                    /\ UNCHANGED <<task, onopen, attempt>>
             /\ \A e \in Replies(pendingMessages) :
                    (received'[1] = Text(<<e>>) /\ e.Id # 0) =>
                        completed' = <<[Id |-> e.Id, ok |-> e.type # "Error"]>>]_vars

\* one frame rejected the request of stopAll() and resolved the one of the handshake
C13_Witness ==
    /\ Len(completed) = 2
    /\ ~completed[1].ok /\ completed[2].ok
    /\ task[2].kind = "stopAll" /\ task[2].pc = "done" /\ task[2].result = "Server error"
    /\ \E s \in Sockets : onopen[s].step = 2

\* a frame all of whose entries and devices can be read
Readable(f) ==
    /\ f.json
    /\ \A k \in DOMAIN f.entries :
           /\ f.entries[k].readable
           /\ \A n \in DOMAIN f.entries[k].Devices : f.entries[k].Devices[n].readable

\* the registry reg after the announcements ds, from the n-th on
RECURSIVE Announced(_, _, _)
Announced(reg, ds, n) ==
    IF n > Len(ds) THEN reg
    ELSE Announced([i \in DOMAIN reg \cup {ds[n].DeviceIndex} |->
                       IF i = ds[n].DeviceIndex THEN parseDevice(ds[n]) ELSE reg[i]],
                   ds, n + 1)

\* the registry reg after the entries es, from the k-th on
RECURSIVE RegistryAfter(_, _, _)
RegistryAfter(reg, es, k) ==
    IF k > Len(es) THEN reg
    ELSE RegistryAfter(
             CASE es[k].type \in {"DeviceAdded", "DeviceList"} ->
                      Announced(reg, es[k].Devices, 1)
               [] es[k].type = "DeviceRemoved" ->
                      [i \in DOMAIN reg \ {es[k].DeviceIndex} |-> reg[i]]
               [] OTHER -> reg,
             es, k + 1)

\* C14: a frame leaves in the registry the indices it had or the frame announced
\* (DeviceAdded, DeviceList) and that no later DeviceRemoved names, each with the
\* descriptor of its latest announcement and nothing of an earlier one; other entries
\* and a DeviceRemoved of an absent index change nothing; a socket's close event
\* empties the registry, and nothing else writes it but disconnect(), which empties it.
C14_Registry ==
    [][/\ (received' # <<>> /\ Readable(received'[1])) =>
             devices' = RegistryAfter(devices, received'[1].entries, 1)
       /\ (\E s \in Sockets : readyState[s] # "CLOSED" /\ readyState'[s] = "CLOSED") =>
             devices' = NoDevices
       /\ received' = <<>> => devices' \in {devices, NoDevices}]_vars

\* a device announced with vibrate motors and a linear axis, announced again as a
\* rotating one, is a rotating one
C14_Witness ==
    /\ received # <<>>
    /\ Len(received[1].entries) = 2
    /\ received[1].entries[1].type = "DeviceAdded"
    /\ received[1].entries[2].type = "DeviceAdded"
    /\ parseDevice(received[1].entries[1].Devices[1]).vibrate = MaxMotors
    /\ devices = [i \in {0} |-> [vibrate |-> 0, rotate |-> 1, linear |-> 0]]

\* C19: a frame that fails to decode (a text that is not JSON, or one with an entry or
\* a device that cannot be read) leaves the registry, the pending table and the
\* sockets as they were.
C19_DroppedWhole ==
    [][(received' # <<>> /\ ~Readable(received'[1])) =>
          /\ devices' = devices
          /\ pendingMessages' = pendingMessages
          /\ readyState' = readyState]_vars

\* ---------------------------------------------------------------------------
\* Claims about the actuation layer

\* the operation and the device of the call task t is running in a step: those of the
\* call the step invoked, else those of the call t was suspended in
OpOf(t) == IF invoked' # <<>> THEN invoked'[1].op ELSE task[t].call.op
DevOf(t) == IF invoked' # <<>> THEN invoked'[1].device ELSE task[t].call.dev
\* the step in which the call of task t throws the error r
Threw(t, r) ==
    /\ task'[t].kind = "call" /\ task'[t].pc = "done" /\ task'[t].result = r
    /\ invoked' # <<>> \/ task[t].pc # "done"
\* the step writes and registers nothing
NothingSent == sent' = <<>> /\ UNCHANGED <<pendingMessages, messageId>>
Scaled == {"vibrate", "rotate", "linear"}
OpOfType(ty) ==
    CASE ty = "ScalarCmd" -> "vibrate"
      [] ty = "RotateCmd" -> "rotate"
      [] ty = "LinearCmd" -> "linear"
      [] OTHER -> "stop"

\* C15: vibrate, rotate, linear and stop throw the device-not-found error exactly for
\* an index absent from the registry when they look it up, and vibrate, rotate and
\* linear the capability error for a device without motors of that kind; the step that
\* throws writes no frame and registers no request, and no command is ever written for
\* an absent device or an unsupported capability.
C15_Refused ==
    [][/\ \A t \in Tasks :
             /\ Threw(t, "Device not found") =>
                    DevOf(t) \notin DOMAIN devices /\ NothingSent
             /\ (OpOf(t) \in Scaled /\ Threw(t, Unsupported(OpOf(t)))) =>
                    /\ DevOf(t) \in DOMAIN devices
                    /\ Motors(devices[DevOf(t)], OpOf(t)) = 0
                    /\ NothingSent
             /\ (task'[t].kind = "call" /\ task[t].pc = "poll" /\ task'[t].pc # "poll") =>
                    IF DevOf(t) \notin DOMAIN devices
                    THEN Threw(t, "Device not found")
                    ELSE (OpOf(t) \in Scaled /\ Motors(devices[DevOf(t)], OpOf(t)) = 0)
                             => Threw(t, Unsupported(OpOf(t)))
       /\ \A i \in 1..Len(sent') :
             sent'[i].type \in {"ScalarCmd", "RotateCmd", "LinearCmd", "StopDeviceCmd"} =>
                 /\ sent'[i].dev \in DOMAIN devices
                 /\ OpOfType(sent'[i].type) \in Scaled =>
                        Motors(devices[sent'[i].dev], OpOfType(sent'[i].type)) > 0]_vars

\* rotate() on a device that vibrates, after stop() on an absent one would be alike
C15_Witness ==
    /\ task[1].kind = "call" /\ task[1].pc = "done"
    /\ task[1].result = "Device does not support rotation"
    /\ 0 \in DOMAIN devices /\ devices[0].rotate = 0 /\ devices[0].vibrate = MaxMotors
    /\ sent = <<>>
    /\ isConnected(Cur)

\* C16: the frame of a vibrate(index, strength, motor) is one ScalarCmd for index whose
\* Scalars has one entry per vibrate motor of the device, Index 0, 1, ... in order,
\* each Scalar in [0, 1]: strength cut to [0, 1] in every entry when motor is
\* undefined, else in the entry of that motor with 0 in the others.
C16_Scalars ==
    [][/\ \A i \in 1..Len(sent') :
             sent'[i].type = "ScalarCmd" =>
                 /\ Len(sent') = 1
                 /\ \E t \in Tasks :
                        /\ task'[t].pc = "awaitReply" /\ task'[t].req = sent'[i].Id
                        /\ task'[t].call.op = "vibrate"
                        /\ task'[t].call.dev = sent'[i].dev
                        /\ LET x == task'[t].call.str
                               m == task'[t].motor
                               n == devices[sent'[i].dev].vibrate
                               cut == IF x < 0 THEN 0 ELSE IF x > 100 THEN 100 ELSE x
                           IN  /\ Len(sent'[i].args) = n
                               /\ \A j \in 1..n :
                                      /\ sent'[i].args[j].Index = j - 1
                                      /\ sent'[i].args[j].Scalar \in 0..100
                                      /\ sent'[i].args[j].Scalar =
                                             IF m = NoMotor \/ m = j - 1 THEN cut ELSE 0
       /\ \A t \in Tasks :
             (task'[t].call.op = "vibrate" /\ task'[t].pc = "awaitReply"
                 /\ (invoked' # <<>> \/ task[t].pc # "awaitReply")) =>
                 Len(sent') = 1 /\ sent'[1].type = "ScalarCmd"]_vars

\* vibrate(0, 1.5, 1) on a device with the motors 0 and 1
C16_Witness ==
    /\ sent # <<>> /\ sent[1].type = "ScalarCmd"
    /\ task[1].call.str = 150 /\ task[1].motor = 1
    /\ sent[1].args = <<[Index |-> 0, Scalar |-> 0], [Index |-> 1, Scalar |-> 100]>>

\* C17: a getBattery() that has returned has returned a level or null, never an error.
C17_BatteryNeverThrows ==
    \A t \in Tasks :
        (task[t].kind = "battery" /\ task[t].pc = "done") =>
            task[t].result \in {"level", "null"}

\* C18: stopAll() while this.ws is not an open socket returns at once without error,
\* writes and registers nothing and leaves the sockets and the connect attempts as
\* they are; while it is open it writes one StopAllDevices frame without DeviceIndex.
C18_StopAll ==
    [][Invoked("stopAll") =>
          IF ws # 0 /\ readyState[ws] = "OPEN"
          THEN /\ sent' = <<[sock |-> ws, type |-> "StopAllDevices", Id |-> messageId,
                              dev |-> NoIndex, args |-> <<>>]>>
               /\ pendingMessages' = pendingMessages \cup {messageId}
          ELSE /\ NothingSent
               /\ UNCHANGED <<ws, readyState, connectionPromise, attempt, timeout>>
               /\ \E t \in Tasks : /\ task'[t].kind = "stopAll"
                                    /\ task'[t].pc = "done"
                                    /\ task'[t].result = "ok"]_vars

\* stopAll() after the connection was lost
C18_Witness ==
    /\ invoked # <<>> /\ invoked[1].op = "stopAll"
    /\ task[1].kind = "stopAll" /\ task[1].pc = "done" /\ task[1].result = "ok"
    /\ ws = 0 /\ readyState[1] = "CLOSED"
    /\ sent = <<>>

\* ---------------------------------------------------------------------------
\* Claims about failed connect attempts

\* the attempt a has failed
Failed(a) == attempt[a] \notin {"none", "pending", "ok"}

\* C20: no failed attempt is this.connectionPromise, and a connect() called while no
\* socket is open and no attempt is pending makes a new attempt.
C20_FailedAttemptForgotten ==
    /\ [](\A a \in Sockets : Failed(a) => connectionPromise # a)
    /\ [][(/\ Invoked("connect")
           /\ ~(ws # 0 /\ readyState[ws] = "OPEN")
           /\ \A a \in Sockets : attempt[a] # "pending") =>
              \E a \in Sockets : attempt[a] = "none" /\ attempt'[a] # "none"]_vars

\* ---------------------------------------------------------------------------
\* Claims about superseded sockets and concurrent callers

\* C21: the close event of a socket that is no longer this.ws, while this.ws is a
\* newer socket, leaves this.ws, the registry and the pending table as they are.
C21_StaleCloseHarmless ==
    [][\A s \in Sockets :
          (/\ readyState[s] # "CLOSED" /\ readyState'[s] = "CLOSED"
           /\ ws # 0 /\ ws # s) =>
              UNCHANGED <<ws, devices, pendingMessages>>]_vars

\* C24: a frame other than RequestServerInfo is written to a socket only once the
\* first request of that socket's handshake has been resolved.
C24_HandshakeFirst ==
    [][\A i \in 1..Len(sent') :
          sent'[i].type # "RequestServerInfo" => onopen'[sent'[i].sock].step >= 2]_vars

\* C22: when notifications have overlapped and all of them have returned, the recorded
\* count is the count of the notification delivered last, and the latest call the
\* bridge made is vibrate exactly when that count is positive.
C22_OverlapSettles ==
    (overlapped /\ NotifRunning(Cur) = {}) =>
        /\ lastWorkingCount = prevDelivered
        /\ (lastEdge = "vibrate") <=> (prevDelivered > 0)

\* C23: a setState() call that takes active from true to false calls stop() on the
\* device that was vibrated when active became true, whatever its device argument.
C23_StopsVibratedDevice ==
    [][(Invoked("setState") /\ active /\ ~invoked'[1].active) =>
          called' = <<Stop(vibrated)>>]_vars
====
